---- MODULE Spec2Model ----
(***************************************************************************)
(* Model of solar_vendor_app.py, a Streamlit script.  Streamlit re-executes *)
(* the whole script on every widget interaction; only st.session_state     *)
(* survives between executions.  Text is modelled as a sequence of         *)
(* one-character strings so that strip, lower, title, split and the        *)
(* substring test are computed, not assumed.  The three emoji of the       *)
(* labels are written "+" (check mark), "?" (question mark) and "-"        *)
(* (cross mark).                                                           *)
(*                                                                         *)
(* The file as it stands does not parse: the export block (lines 146-157)  *)
(* lost its indentation and the handler of lines 160-161 is repeated at    *)
(* 171-172.  The model follows the evident structure: lines 41-157 form    *)
(* the body of the try of line 40 and lines 160-161 are its handler.       *)
(***************************************************************************)
EXTENDS Integers, Sequences, FiniteSets, TLC

\* ------------------------------------------------------------------ bounds
MaxRows == 2        \* rows of an uploaded table
MaxRuns == 1        \* classification runs in one session
MaxTermsLen == 3    \* characters of a search-terms string (filter checks)
MaxReplyLen == 3    \* characters of a completion reply (classifier checks)
MaxResults == 2     \* organic results of a search response (snippet checks)

\* ------------------------------------------------------------------ text
\* pandas' missing value, where a cell's text is expected
NaN == <<"<NaN>">>

UpperLetters ==
  <<"A","B","C","D","E","F","G","H","I","J","K","L","M",
    "N","O","P","Q","R","S","T","U","V","W","X","Y","Z">>
LowerLetters ==
  <<"a","b","c","d","e","f","g","h","i","j","k","l","m",
    "n","o","p","q","r","s","t","u","v","w","x","y","z">>

Whitespace == {" ", "\n", "\t"}

IsUpper(c) == \E i \in DOMAIN UpperLetters : UpperLetters[i] = c
IsLower(c) == \E i \in DOMAIN LowerLetters : LowerLetters[i] = c
IsCased(c) == IsUpper(c) \/ IsLower(c)

char_lower(c) ==
  IF IsUpper(c)
    THEN LowerLetters[CHOOSE i \in DOMAIN UpperLetters : UpperLetters[i] = c]
    ELSE c

char_upper(c) ==
  IF IsLower(c)
    THEN UpperLetters[CHOOSE i \in DOMAIN LowerLetters : LowerLetters[i] = c]
    ELSE c

\* str.lower()
str_lower(s) == [i \in 1..Len(s) |-> char_lower(s[i])]

\* str.title(): a cased character is upper-cased after an uncased one (or
\* at the start) and lower-cased after a cased one.
str_title(s) ==
  [i \in 1..Len(s) |->
     IF i = 1 \/ ~IsCased(s[i-1]) THEN char_upper(s[i]) ELSE char_lower(s[i])]

RECURSIVE str_lstrip(_)
str_lstrip(s) ==
  IF s # <<>> /\ Head(s) \in Whitespace THEN str_lstrip(Tail(s)) ELSE s

RECURSIVE str_rstrip(_)
str_rstrip(s) ==
  IF s # <<>> /\ s[Len(s)] \in Whitespace
    THEN str_rstrip(SubSeq(s, 1, Len(s) - 1))
    ELSE s

\* str.strip()
str_strip(s) == str_rstrip(str_lstrip(s))

\* s.split(sep) for a one-character separator: "".split(",") is [""].
RECURSIVE str_split(_, _)
str_split(s, sep) ==
  IF \A i \in 1..Len(s) : s[i] # sep
    THEN <<s>>
    ELSE LET k == CHOOSE i \in 1..Len(s) :
                    s[i] = sep /\ \A j \in 1..(i-1) : s[j] # sep
         IN  <<SubSeq(s, 1, k - 1)>> \o str_split(SubSeq(s, k + 1, Len(s)), sep)

\* sub in s
str_in(sub, s) ==
  \E i \in 0..(Len(s) - Len(sub)) : SubSeq(s, i + 1, i + Len(sub)) = sub

\* str(value) of a cell: pandas reads an empty field as NaN, and str(nan)
\* is "nan".
str(v) == IF v = NaN THEN <<"n","a","n">> ELSE v

\* ------------------------------------------------------------------ values
\* The outcome of a call: a returned value or a raised exception with its
\* message.
Return(v) == [exc |-> FALSE, val |-> v]
Raise(msg) == [exc |-> TRUE, val |-> msg]

\* Python's None, where a text is expected
NoneValue == <<"<None>">>

\* A name that is not bound / a name bound to v, in the script's namespace
Unbound == <<>>
Bound(v) == <<v>>

\* A dict with string keys, as st.session_state
EmptyDict == [k \in {} |-> TRUE]
SetItem(d, k, v) == [y \in (DOMAIN d) \cup {k} |-> IF y = k THEN v ELSE d[y]]

\* ------------------------------------------------------------------ tables
\* A DataFrame: its column labels, its index labels and one tuple of cells
\* per row (a cell is a text or NaN).
Company == <<"C","o","m","p","a","n","y">>
Location == <<"L","o","c","a","t","i","o","n">>
Classification ==
  <<"C","l","a","s","s","i","f","i","c","a","t","i","o","n">>

DataFrame(cols, idx, data) == [columns |-> cols, index |-> idx, data |-> data]

ColPos(cols, name) == CHOOSE k \in 1..Len(cols) : cols[k] = name
HasColumn(cols, name) == \E k \in 1..Len(cols) : cols[k] = name

\* row[name] of the r-th row
RowGet(df, r, name) == df.data[r][ColPos(df.columns, name)]

Empty(df) == Len(df.data) = 0

RECURSIVE SelectPos(_, _)
\* the positions 1..n, in order, at which keep holds
SelectPos(keep, n) ==
  IF n = 0 THEN <<>>
  ELSE SelectPos(keep, n - 1) \o (IF keep[n] THEN <<n>> ELSE <<>>)

\* df[mask]: the rows where the mask holds, in order, index labels kept
BoolIndex(df, mask) ==
  LET pos == SelectPos(mask, Len(df.data))
  IN  DataFrame(df.columns,
                [k \in 1..Len(pos) |-> df.index[pos[k]]],
                [k \in 1..Len(pos) |-> df.data[pos[k]]])

Comma == ","

\* the list comprehension of line 50
TermList(search_terms) ==
  LET parts == str_split(search_terms, Comma)
  IN  [k \in 1..Len(parts) |-> str_lower(str_strip(parts[k]))]

KeyErrorLocation == <<"'","L","o","c","a","t","i","o","n","'">>
KeyErrorCompany == <<"'","C","o","m","p","a","n","y","'">>

\* the lambda of lines 51-53 on the r-th row: any() over the terms from the
\* k-th on, each term tried on Location and then, if that fails, on Company;
\* row[name] raises KeyError when the table has no such column.
RECURSIVE RowMatches(_, _, _, _)
RowMatches(df, r, terms, k) ==
  IF k > Len(terms) THEN Return(FALSE)
  ELSE IF ~HasColumn(df.columns, Location) THEN Raise(KeyErrorLocation)
  ELSE IF str_in(terms[k], str_lower(str(RowGet(df, r, Location)))) THEN Return(TRUE)
  ELSE IF ~HasColumn(df.columns, Company) THEN Raise(KeyErrorCompany)
  ELSE IF str_in(terms[k], str_lower(str(RowGet(df, r, Company)))) THEN Return(TRUE)
  ELSE RowMatches(df, r, terms, k + 1)

\* A faulty variant: only Company is searched.
filter_by_keywords_company_only(df, search_terms) ==
  IF str_strip(search_terms) = <<>>
    THEN Return(df)
    ELSE LET terms == TermList(search_terms)
             mask == [r \in 1..Len(df.data) |->
                        \E k \in 1..Len(terms) :
                          str_in(terms[k], str_lower(str(RowGet(df, r, Company))))]
         IN  Return(BoolIndex(df, mask))

filter_by_keywords(df, search_terms) ==
  IF str_strip(search_terms) = <<>>
    THEN Return(df)
    ELSE LET terms == TermList(search_terms)
             applied == [r \in 1..Len(df.data) |-> RowMatches(df, r, terms, 1)]
         IN  IF \E r \in 1..Len(df.data) : applied[r].exc
               THEN applied[CHOOSE r \in 1..Len(df.data) :
                              applied[r].exc /\ \A q \in 1..(r-1) : ~applied[q].exc]
               ELSE Return(BoolIndex(df, [r \in 1..Len(df.data) |-> applied[r].val]))

\* ------------------------------------------------------------------ snippet
NoSnippetFound ==
  <<"N","o"," ","s","n","i","p","p","e","t"," ","f","o","u","n","d">>
SnippetErrorPrefix ==
  <<"E","r","r","o","r"," ","r","e","t","r","i","e","v","i","n","g"," ",
    "s","n","i","p","p","e","t",":"," ">>
IndexErrorMsg ==
  <<"l","i","s","t"," ","i","n","d","e","x"," ","o","u","t"," ","o","f"," ",
    "r","a","n","g","e">>

\* f"{company} {location} {search_terms}"
Query(company, location, terms) ==
  company \o <<" ">> \o location \o <<" ">> \o terms

\* A search response is either a failure of requests.get / response.json
\* (fails, with the exception's message) or the decoded JSON object: whether
\* it has the key organic_results, the array under it, each element with or
\* without a snippet field.
SerpFailure(msg) == [fails |-> TRUE, msg |-> msg]
SerpJson(has_key, results) ==
  [fails |-> FALSE, has_organic_results |-> has_key, organic_results |-> results]
SerpResult(has_snippet, snippet) == [has_snippet |-> has_snippet, snippet |-> snippet]

\* lines 78-81: what the body of the try evaluates to
SnippetTry(response) ==
  IF response.fails THEN Raise(response.msg)
  ELSE LET results == IF response.has_organic_results
                        THEN response.organic_results
                        ELSE <<SerpResult(FALSE, <<>>)>>     \* the default [{}]
       IN  IF Len(results) = 0 THEN Raise(IndexErrorMsg)     \* [][0]
           ELSE IF results[1].has_snippet
                  THEN Return(results[1].snippet)
                  ELSE Return(NoSnippetFound)

\* A faulty variant: the handler of lines 82-83 is missing and the exception leaves
\* the function.
get_serp_snippet_uncaught(company, location, search_terms, response) ==
  SnippetTry(response)

get_serp_snippet(company, location, search_terms, response) ==
  LET got == SnippetTry(response)
  IN  IF got.exc THEN Return(SnippetErrorPrefix \o got.val) ELSE got

\* ------------------------------------------------------------------ classifier
LikelyAligned ==
  <<"+"," ","L","i","k","e","l","y"," ","A","l","i","g","n","e","d">>
PossiblyRelated ==
  <<"?"," ","P","o","s","s","i","b","l","y"," ","R","e","l","a","t","e","d">>
NotAligned == <<"-"," ","N","o","t"," ","A","l","i","g","n","e","d">>
CanonicalLabels == {LikelyAligned, PossiblyRelated, NotAligned}

ClassifyErrorPrefix == <<"-"," ","E","r","r","o","r",":"," ">>
NoneStripMsg ==
  <<"'","N","o","n","e","T","y","p","e","'"," ","o","b","j","e","c","t"," ",
    "h","a","s"," ","n","o"," ","a","t","t","r","i","b","u","t","e"," ",
    "'","s","t","r","i","p","'">>

\* The outcome of client.chat.completions.create: a raised exception, or a
\* response with its choices, each the message content (a text or None).
CompletionFailure(msg) == [fails |-> TRUE, msg |-> msg]
CompletionResponse(choices) == [fails |-> FALSE, choices |-> choices]

\* lines 100-105
ClassifyTry(completion) ==
  IF completion.fails THEN Raise(completion.msg)
  ELSE IF Len(completion.choices) = 0 THEN Raise(IndexErrorMsg)
  ELSE IF completion.choices[1] = NoneValue THEN Raise(NoneStripMsg)
  ELSE Return(str_strip(completion.choices[1]))

\* A faulty variant: the reply is returned as it came, not stripped.
classify_vendor_unstripped(company, snippet, category, model_choice, completion) ==
  IF completion.fails THEN Return(ClassifyErrorPrefix \o completion.msg)
  ELSE IF Len(completion.choices) = 0 THEN Return(ClassifyErrorPrefix \o IndexErrorMsg)
  ELSE Return(completion.choices[1])

classify_vendor(company, snippet, category, model_choice, completion) ==
  LET got == ClassifyTry(completion)
  IN  IF got.exc THEN Return(ClassifyErrorPrefix \o got.val) ELSE got

\* ------------------------------------------------------------------ inputs
\* An uploaded file: unparsable, or a header line and rows of cells.
BadFile == [parses |-> FALSE, header |-> <<>>, rows |-> <<>>]
CsvFile(header, rows) == [parses |-> TRUE, header |-> header, rows |-> rows]

\* " company,LOCATION": both required columns once normalised
GoodHeader ==
  << <<" ","c","o","m","p","a","n","y">>, <<"L","O","C","A","T","I","O","N">> >>
\* "Company,city": no Location column
NoLocationHeader == << <<"C","o","m","p","a","n","y">>, <<"c","i","t","y">> >>

\* two vendors of the same name, the second with an empty Location field
SunRow == << <<"S","u","n">>, <<"D","C">> >>
BlankLocationRow == << <<"S","u","n">>, NaN >>

\* The uploaded tables: up to n rows, BlankLocationRow and SunRow in turn.
Tables(n) ==
  {[k \in 1..m |-> IF k % 2 = 1 THEN BlankLocationRow ELSE SunRow] : m \in 0..n}

Files ==
  {BadFile, CsvFile(NoLocationHeader, <<SunRow>>)}
    \cup {CsvFile(GoodHeader, t) : t \in Tables(MaxRows)}

\* the text input: blank, a term matching SunRow only (in "DC"), a term
\* matching BlankLocationRow only (in "nan")
TermChoices == {<<>>, <<"D","c">>, <<"a">>}

\* two of the options of line 27 and the options of line 109
CategoryOptions == {"solar", "HVAC"}
ModelOptions == {"gpt-4", "gpt-3.5-turbo"}

\* what the search service does to a request
SerpOutcomes ==
  {SerpFailure(<<"t","o">>), SerpJson(TRUE, <<SerpResult(TRUE, <<"p","v">>)>>)}

\* what the completion service does to a request
CompletionOutcomes ==
  {CompletionFailure(<<"q">>),
   CompletionResponse(<< <<" ">> \o LikelyAligned \o <<"\n">> >>)}

\* ------------------------------------------------------------------ state
VARIABLES
  category_prompt,   \* the selectbox of line 25
  search_terms,      \* the text input of line 31
  uploaded_file,     \* the uploader of line 37: Unbound (None) or Bound(file)
  model_choice,      \* the selectbox of line 109
  clicked,           \* this execution was triggered by the begin button
  session_state,     \* st.session_state
  session_at_start,  \* history variable: st.session_state as lines 19-22 left
                     \* it in the current execution
  pc,                \* where the script is; "idle" between executions
  df,                \* the script's names: Unbound or Bound(value)
  filtered_df,
  classifications,
  debug_logs,
  out,               \* the elements the current execution has rendered
  serp_calls,        \* the search requests the current execution has issued
  llm_calls          \* the completion requests the current execution has issued

widgets == <<category_prompt, search_terms, uploaded_file, model_choice>>
names == <<df, filtered_df, classifications, debug_logs>>
calls == <<serp_calls, llm_calls>>
vars == <<widgets, clicked, session_state, session_at_start, pc, names, out, calls>>

\* ------------------------------------------------------------------ script
\* line 41
read_csv(file) ==
  IF file.parses
    THEN Return(DataFrame(file.header,
                          [k \in 1..Len(file.rows) |-> k - 1],
                          file.rows))
    ELSE Raise(<<"p","a","r","s","e">>)

\* line 42
NormalizeColumns(frame) ==
  DataFrame([k \in 1..Len(frame.columns) |-> str_title(str_strip(frame.columns[k]))],
            frame.index, frame.data)

\* A faulty variant: only the Company column is required.
RequiredColumnsPresent_company_only(columns) == HasColumn(columns, Company)

\* line 44
RequiredColumnsPresent(columns) ==
  HasColumn(columns, Company) /\ HasColumn(columns, Location)

\* line 111
button_disabled(file, filtered) == file = Unbound \/ Empty(filtered)

\* A faulty variant: the run starts in every execution.
st_button_always(was_clicked, disabled) == TRUE

\* st.button(..., disabled=...) returns the trigger value the front end sent:
\* true in the execution a click triggered.  The flag disabled only changes
\* how the button is rendered.
st_button(was_clicked, disabled) == was_clicked

\* A faulty variant: the loop runs over the whole table.
LoopFrame_unfiltered(whole, filtered) == whole

\* line 116: the table the loop iterates
LoopFrame(whole, filtered) == filtered

\* A faulty variant: the labels are aligned on the index labels, as a Series
\* would be, not by position.
SetColumn_aligned(frame, name, values) ==
  DataFrame(Append(frame.columns, name), frame.index,
            [r \in 1..Len(frame.data) |->
               Append(frame.data[r],
                      IF frame.index[r] + 1 <= Len(values)
                        THEN values[frame.index[r] + 1] ELSE NaN)])

\* frame[name] = values
SetColumn(frame, name, values) ==
  IF HasColumn(frame.columns, name)
    THEN DataFrame(frame.columns, frame.index,
                   [r \in 1..Len(frame.data) |->
                      [frame.data[r] EXCEPT ![ColPos(frame.columns, name)] = values[r]]])
    ELSE DataFrame(Append(frame.columns, name), frame.index,
                   [r \in 1..Len(frame.data) |-> Append(frame.data[r], values[r])])

DebugRecord(company, location, snippet, result) ==
  [Company |-> company, Location |-> location,
   Snippet |-> snippet, Classification |-> result]

Init ==
  /\ category_prompt = "solar"
  /\ search_terms = <<>>
  /\ uploaded_file = Unbound
  /\ model_choice = "gpt-4"
  /\ clicked = FALSE
  /\ session_state = EmptyDict
  /\ session_at_start = EmptyDict
  /\ pc = "start"
  /\ df = Unbound
  /\ filtered_df = Unbound
  /\ classifications = Unbound
  /\ debug_logs = Unbound
  /\ out = {}
  /\ serp_calls = <<>>
  /\ llm_calls = <<>>

\* A widget interaction starts a new execution in a fresh namespace.
Rerun(by_button) ==
  /\ pc = "idle"
  /\ pc' = "start"
  /\ clicked' = by_button
  /\ out' = {}
  /\ UNCHANGED <<session_state, session_at_start, names, calls>>

Upload ==
  /\ \E f \in Files : uploaded_file' = Bound(f)
  /\ uploaded_file' # uploaded_file
  /\ Rerun(FALSE)
  /\ UNCHANGED <<category_prompt, search_terms, model_choice>>

RemoveFile ==
  /\ uploaded_file # Unbound
  /\ uploaded_file' = Unbound
  /\ Rerun(FALSE)
  /\ UNCHANGED <<category_prompt, search_terms, model_choice>>

ChangeTerms ==
  /\ \E t \in TermChoices \ {search_terms} : search_terms' = t
  /\ Rerun(FALSE)
  /\ UNCHANGED <<category_prompt, uploaded_file, model_choice>>

ChangeCategory ==
  /\ \E c \in CategoryOptions \ {category_prompt} : category_prompt' = c
  /\ Rerun(FALSE)
  /\ UNCHANGED <<search_terms, uploaded_file, model_choice>>

ChangeModel ==
  /\ "model_select" \in out
  /\ \E m \in ModelOptions \ {model_choice} : model_choice' = m
  /\ Rerun(FALSE)
  /\ UNCHANGED <<category_prompt, search_terms, uploaded_file>>

\* The begin button can be pressed only where the last execution rendered it
\* enabled.  A click that takes the focus from an edited text input sends the
\* new terms with the click, so the execution it triggers may see other terms
\* than the ones the button was rendered for.
ClickBegin ==
  /\ "button_enabled" \in out
  /\ Len(session_state["history"]) < MaxRuns
  /\ \E t \in TermChoices : search_terms' = t
  /\ Rerun(TRUE)
  /\ UNCHANGED <<category_prompt, uploaded_file, model_choice>>

\* lines 19-22
InitSession ==
  /\ pc = "start"
  /\ session_state' =
       LET s1 == IF "classified" \notin DOMAIN session_state
                   THEN SetItem(session_state, "classified", FALSE)
                   ELSE session_state
       IN  IF "history" \notin DOMAIN s1 THEN SetItem(s1, "history", <<>>) ELSE s1
  /\ session_at_start' = session_state'
  /\ pc' = "load"
  /\ UNCHANGED <<widgets, clicked, names, out, calls>>

\* lines 39-46
LoadFile ==
  /\ pc = "load"
  /\ IF uploaded_file = Unbound
       THEN /\ pc' = "history"
            /\ UNCHANGED <<df, out>>
       ELSE LET read == read_csv(uploaded_file[1])
            IN  IF read.exc
                  THEN /\ pc' = "except"
                       /\ UNCHANGED <<df, out>>
                  ELSE LET frame == NormalizeColumns(read.val)
                       IN  /\ df' = Bound(frame)
                           /\ IF RequiredColumnsPresent(frame.columns)
                                THEN /\ pc' = "filter"
                                     /\ UNCHANGED out
                                ELSE /\ pc' = "history"
                                     /\ out' = out \cup {"error_columns"}
  /\ UNCHANGED <<widgets, clicked, session_state, session_at_start, filtered_df,
                 classifications, debug_logs, calls>>

\* lines 47-114
FilterAndRender ==
  /\ pc = "filter"
  /\ LET got == filter_by_keywords(df[1], search_terms)
     IN  IF got.exc
           THEN /\ pc' = "except"
                /\ UNCHANGED <<filtered_df, classifications, debug_logs, out>>
           ELSE LET disabled == button_disabled(uploaded_file, got.val)
                    preview == IF search_terms # <<>> /\ Empty(got.val)
                                 THEN {"preview", "warning_no_match"}
                                 ELSE {"preview"}
                    button == IF disabled THEN "button_disabled" ELSE "button_enabled"
                IN  /\ filtered_df' = Bound(got.val)
                    /\ out' = out \cup preview \cup {"model_select", button}
                    /\ IF st_button(clicked, disabled)
                         THEN /\ classifications' = Bound(<<>>)
                              /\ debug_logs' = Bound(<<>>)
                              /\ pc' = "loop"
                         ELSE /\ pc' = "results"
                              /\ UNCHANGED <<classifications, debug_logs>>
  /\ UNCHANGED <<widgets, clicked, session_state, session_at_start, df, calls>>

\* lines 116-129: one iteration of the loop
ClassifyRow ==
  /\ pc = "loop"
  /\ Len(classifications[1]) < Len(LoopFrame(df[1], filtered_df[1]).data)
  /\ \E response \in SerpOutcomes, completion \in CompletionOutcomes :
       LET frame == LoopFrame(df[1], filtered_df[1])
           r == Len(classifications[1]) + 1
       IN  IF ~HasColumn(frame.columns, Company) \/ ~HasColumn(frame.columns, Location)
             THEN /\ pc' = "except"
                  /\ UNCHANGED <<classifications, debug_logs, calls>>
             ELSE
               LET company == str(RowGet(frame, r, Company))
                   location == str(RowGet(frame, r, Location))
                   fetched == get_serp_snippet(company, location, search_terms, response)
               IN  /\ serp_calls' =
                        Append(serp_calls,
                               [q |-> Query(company, location, search_terms),
                                response |-> response, returned |-> fetched])
                   /\ IF fetched.exc
                        THEN /\ pc' = "except"
                             /\ UNCHANGED <<classifications, debug_logs, llm_calls>>
                        ELSE
                          LET snippet == fetched.val
                              result == classify_vendor(company, snippet, category_prompt,
                                                        model_choice, completion)
                          IN  /\ llm_calls' =
                                   Append(llm_calls,
                                          [company |-> company, snippet |-> snippet,
                                           category |-> category_prompt,
                                           model |-> model_choice,
                                           completion |-> completion,
                                           returned |-> result])
                              /\ IF result.exc
                                   THEN /\ pc' = "except"
                                        /\ UNCHANGED <<classifications, debug_logs>>
                                   ELSE /\ classifications' =
                                             Bound(Append(classifications[1], result.val))
                                        /\ debug_logs' =
                                             Bound(Append(debug_logs[1],
                                                          DebugRecord(company, location,
                                                                      snippet, result.val)))
                                        /\ pc' = "loop"
  /\ UNCHANGED <<widgets, clicked, session_state, session_at_start, df, filtered_df, out>>

\* lines 131-134
FinishRun ==
  /\ pc = "loop"
  /\ Len(classifications[1]) = Len(LoopFrame(df[1], filtered_df[1]).data)
  /\ LET labelled == SetColumn(filtered_df[1], Classification, classifications[1])
     IN  /\ filtered_df' = Bound(labelled)
         \* with blank terms filtered_df is df itself (line 49)
         /\ df' = IF str_strip(search_terms) = <<>> THEN Bound(labelled) ELSE df
         /\ session_state' =
              SetItem(SetItem(SetItem(session_state, "classified", TRUE),
                              "last_result", labelled),
                      "history", Append(session_state["history"], labelled))
  /\ pc' = "results"
  /\ UNCHANGED <<widgets, clicked, session_at_start, classifications, debug_logs, out, calls>>

\* lines 136-157 (openpyxl taken as installed: the export succeeds)
ShowResults ==
  /\ pc = "results"
  /\ IF ~session_state["classified"]
       THEN /\ pc' = "history"
            /\ UNCHANGED out
       ELSE IF debug_logs = Unbound                       \* NameError, line 141
              THEN /\ out' = out \cup {"results"}
                   /\ pc' = "except"
              ELSE /\ out' = out \cup {"results", "debug", "download"}
                   /\ pc' = "history"
  /\ UNCHANGED <<widgets, clicked, session_state, session_at_start, names, calls>>

\* lines 160-161
OuterExcept ==
  /\ pc = "except"
  /\ out' = out \cup {"error_processing"}
  /\ pc' = "history"
  /\ UNCHANGED <<widgets, clicked, session_state, session_at_start, names, calls>>

\* lines 164-168; the execution ends and its namespace is dropped
ShowHistory ==
  /\ pc = "history"
  /\ out' = IF session_state["history"] # <<>> THEN out \cup {"history"} ELSE out
  /\ pc' = "idle"
  /\ df' = Unbound
  /\ filtered_df' = Unbound
  /\ classifications' = Unbound
  /\ debug_logs' = Unbound
  /\ clicked' = FALSE
  /\ serp_calls' = <<>>
  /\ llm_calls' = <<>>
  /\ UNCHANGED <<widgets, session_state, session_at_start>>

Next ==
  \/ Upload
  \/ RemoveFile
  \/ ChangeTerms
  \/ ChangeCategory
  \/ ChangeModel
  \/ ClickBegin
  \/ InitSession
  \/ LoadFile
  \/ FilterAndRender
  \/ ClassifyRow
  \/ FinishRun
  \/ ShowResults
  \/ OuterExcept
  \/ ShowHistory

Spec == Init /\ [][Next]_vars

\* ------------------------------------------------------------------ claims
IsPrefix(p, t) == Len(p) <= Len(t) /\ SubSeq(t, 1, Len(p)) = p

\* the key of a completion request
CallKey(c) == <<c.company, c.snippet, c.category, c.model>>

\* the execution is past the loop of a classification run
RunCompleted == pc \in {"results", "history"} /\ classifications # Unbound

\* C1: in a classification run, every row whose snippet fetch failed has its
\* completion request, made with exactly the error string the fetch returned
\* ("Error retrieving snippet: " and the failure's message); no row is
\* skipped, and a completed run has made one request of each kind per
\* filtered row.
C1_FailedFetchStillClassified ==
  /\ \A i \in DOMAIN serp_calls :
       serp_calls[i].response.fails =>
         /\ i \in DOMAIN llm_calls
         /\ ~serp_calls[i].returned.exc
         /\ serp_calls[i].returned.val = SnippetErrorPrefix \o serp_calls[i].response.msg
         /\ llm_calls[i].snippet = serp_calls[i].returned.val
         /\ llm_calls[i].company = str(RowGet(filtered_df[1], i, Company))
         /\ serp_calls[i].q = Query(str(RowGet(filtered_df[1], i, Company)),
                                    str(RowGet(filtered_df[1], i, Location)),
                                    search_terms)
  /\ pc = "loop" =>
       /\ Len(serp_calls) = Len(classifications[1])
       /\ Len(llm_calls) = Len(classifications[1])
  /\ RunCompleted =>
       /\ Len(serp_calls) = Len(filtered_df[1].data)
       /\ Len(llm_calls) = Len(filtered_df[1].data)

\* a run in which the first row's fetch failed and the second row was
\* processed after it
C1_Witness ==
  /\ RunCompleted
  /\ Len(llm_calls) = 2
  /\ serp_calls[1].response.fails
  /\ IsPrefix(SnippetErrorPrefix, llm_calls[1].snippet)

\* C2: while the filtered table is empty the execution issues no search
\* request and no completion request and produces no label, whether or not
\* the begin button triggered it.
C2_EmptyFilterNoCalls ==
  (filtered_df # Unbound /\ Empty(filtered_df[1])) =>
     /\ serp_calls = <<>>
     /\ llm_calls = <<>>
     /\ classifications \in {Unbound, Bound(<<>>)}
     /\ debug_logs \in {Unbound, Bound(<<>>)}

\* the button triggered an execution whose filter keeps none of the rows of a
\* table that has rows
C2_Witness ==
  /\ clicked
  /\ pc = "results"
  /\ filtered_df # Unbound /\ Empty(filtered_df[1])
  /\ ~Empty(df[1])

\* C3 (as claimed): the completion service is invoked at most once per key
\* (company, snippet, category, model).
C3_AtMostOncePerKey ==
  \A i, j \in DOMAIN llm_calls :
     CallKey(llm_calls[i]) = CallKey(llm_calls[j]) => i = j

\* the uploaded table lacks Company or Location once its header is
\* normalised
LacksRequiredColumn ==
  /\ uploaded_file # Unbound
  /\ uploaded_file[1].parses
  /\ LET header == uploaded_file[1].header
         normal == {str_title(str_strip(header[k])) : k \in 1..Len(header)}
     IN  ~({Company, Location} \subseteq normal)

\* C5: when the uploaded table lacks a required column the execution reports
\* the error and goes no further than the column check: nothing is filtered,
\* no request is issued, no run starts, the handler of line 160 is not
\* entered, and the session stays as the initialisation of lines 19-22 left
\* it: classified, last_result and history are not touched.
C5_MissingColumnStops ==
  (LacksRequiredColumn /\ pc \notin {"start", "load"}) =>
     /\ pc \in {"history", "idle"}
     /\ "error_columns" \in out
     /\ "error_processing" \notin out
     /\ filtered_df = Unbound
     /\ classifications = Unbound
     /\ serp_calls = <<>>
     /\ llm_calls = <<>>
     /\ session_state = session_at_start

\* the error is on the page of a session that already holds a run
C5_Witness ==
  /\ LacksRequiredColumn
  /\ pc = "idle"
  /\ "error_columns" \in out
  /\ session_state["classified"]

\* C6: an execution that the begin button did not trigger issues no search
\* request and no completion request and never enters the loop.
C6_OnlyButtonStartsRun ==
  ~clicked =>
     /\ serp_calls = <<>>
     /\ llm_calls = <<>>
     /\ pc # "loop"
     /\ classifications = Unbound

\* an execution without click that has a non-empty filtered table at hand
C6_Witness ==
  /\ ~clicked
  /\ pc = "results"
  /\ filtered_df # Unbound /\ ~Empty(filtered_df[1])
  /\ "button_enabled" \in out

\* the filtered table of the execution, before any label is attached
FilteredInput ==
  filter_by_keywords(NormalizeColumns(read_csv(uploaded_file[1]).val), search_terms).val

\* C9: during a run the labels and the debug log have the same length k, the
\* number of rows processed; their i-th entries are the label returned for
\* the i-th filtered row and the record of that row's Company, Location,
\* snippet and label.  When the run completes both have one entry per
\* filtered row and the output table (last_result, and the last entry of the
\* history) is the filtered table with the column Classification appended,
\* row i carrying label i.
C9_ParallelOutputs ==
  /\ classifications # Unbound =>
       LET labels == classifications[1]
           logs == debug_logs[1]
           input == FilteredInput
       IN  /\ debug_logs # Unbound
           /\ Len(logs) = Len(labels)
           /\ Len(labels) <= Len(input.data)
           /\ Len(llm_calls) = Len(labels)
           /\ \A i \in 1..Len(labels) :
                /\ labels[i] = llm_calls[i].returned.val
                /\ logs[i].Company = str(RowGet(input, i, Company))
                /\ logs[i].Location = str(RowGet(input, i, Location))
                /\ logs[i].Snippet = serp_calls[i].returned.val
                /\ logs[i].Classification = labels[i]
  /\ RunCompleted =>
       LET labels == classifications[1]
           input == FilteredInput
           result == session_state["last_result"]
           history == session_state["history"]
       IN  /\ Len(labels) = Len(input.data)
           /\ Len(debug_logs[1]) = Len(input.data)
           /\ result.columns = Append(input.columns, Classification)
           /\ result.index = input.index
           /\ Len(result.data) = Len(input.data)
           /\ \A i \in 1..Len(input.data) :
                result.data[i] = Append(input.data[i], labels[i])
           /\ history[Len(history)] = result
           /\ session_state["classified"]

\* a completed run over a filtered table that lost its first row, with one
\* failed and one successful completion request
C9_Witness ==
  /\ RunCompleted
  /\ Len(classifications[1]) = 1
  /\ session_state["last_result"].index = <<1>>
  /\ IsPrefix(ClassifyErrorPrefix, classifications[1][1])

\* C10 (as claimed): an execution that shows the results has the debug log,
\* one record per row of last_result, and does not end in the handler of
\* line 160.
C10_DebugLogExists ==
  ("results" \in out /\ pc \in {"except", "history"}) =>
     /\ pc # "except"
     /\ debug_logs # Unbound
     /\ Len(debug_logs[1]) = Len(session_state["last_result"].data)

\* ------------------------------------------------------------------ the functions alone
\* The three functions of the script, each applied once to inputs drawn from
\* larger sets than the session above affords.

RECURSIVE Texts(_, _)
\* the texts of at most n characters over an alphabet
Texts(alphabet, n) ==
  IF n = 0 THEN {<<>>}
  ELSE LET shorter == Texts(alphabet, n - 1)
       IN  shorter \cup {Append(t, c) : t \in shorter, c \in alphabet}

Defaults ==
  /\ category_prompt = "solar"
  /\ model_choice = "gpt-4"
  /\ uploaded_file = Unbound
  /\ clicked = FALSE
  /\ session_state = EmptyDict
  /\ session_at_start = EmptyDict
  /\ classifications = Unbound
  /\ debug_logs = Unbound
  /\ out = {}
  /\ serp_calls = <<>>
  /\ llm_calls = <<>>

\* --- filter_by_keywords
FilterRows ==
  {<<company, location>> :
     company \in {<<"B">>, <<"A","n">>}, location \in {<<"b"," ","B">>, NaN}}
FilterFrames ==
  {DataFrame(<<Company, Location>>, [k \in 1..Len(rows) |-> k - 1], rows) :
     rows \in UNION {[1..n -> FilterRows] : n \in 0..MaxRows}}
TermAlphabet == {"a", "N", "b", ",", " "}

InitFilter ==
  /\ Defaults
  /\ pc = "filter"
  /\ df \in {Bound(f) : f \in FilterFrames}
  /\ search_terms \in Texts(TermAlphabet, MaxTermsLen)
  /\ filtered_df = Unbound

\* line 55
ApplyFilter ==
  /\ pc = "filter"
  /\ filtered_df' = Bound(filter_by_keywords(df[1], search_terms).val)
  /\ pc' = "filtered"
  /\ UNCHANGED <<widgets, clicked, session_state, session_at_start, df, classifications,
                 debug_logs, out, calls>>

SpecFilter == InitFilter /\ [][ApplyFilter]_vars

\* --- get_serp_snippet
SerpResults ==
  {SerpResult(FALSE, <<>>), SerpResult(TRUE, <<>>),
   SerpResult(TRUE, <<"p","v">>), SerpResult(TRUE, NoSnippetFound)}
SerpResponses ==
  {SerpFailure(<<"t","o">>), SerpFailure(<<"j","s","o","n">>), SerpJson(FALSE, <<>>)}
    \cup {SerpJson(TRUE, rs) : rs \in UNION {[1..n -> SerpResults] : n \in 0..MaxResults}}

InitSnippet ==
  /\ Defaults
  /\ pc = "snippet"
  /\ df = Unbound
  /\ filtered_df = Unbound
  /\ search_terms \in TermChoices

\* line 120
CallSnippet ==
  /\ pc = "snippet"
  /\ \E row \in {SunRow, BlankLocationRow}, response \in SerpResponses :
       serp_calls' =
         <<[q |-> Query(str(row[1]), str(row[2]), search_terms),
            response |-> response,
            returned |-> get_serp_snippet(str(row[1]), str(row[2]), search_terms, response)]>>
  /\ pc' = "fetched"
  /\ UNCHANGED <<widgets, clicked, session_state, session_at_start, names, out, llm_calls>>

SpecSnippet == InitSnippet /\ [][CallSnippet]_vars

\* --- classify_vendor
ReplyAlphabet == {" ", "\n", "o", "k"}
PaddedLabels ==
  {before \o label \o after :
     before \in {<<>>, <<" ">>}, label \in CanonicalLabels,
     after \in {<<>>, <<"\n">>, <<" ", "\n">>}}
Completions ==
  {CompletionFailure(<<"q">>), CompletionFailure(<<>>),
   CompletionResponse(<<>>), CompletionResponse(<<NoneValue>>)}
    \cup {CompletionResponse(<<reply>>) :
            reply \in Texts(ReplyAlphabet, MaxReplyLen) \cup PaddedLabels}

InitClassify ==
  /\ Defaults
  /\ pc = "classify"
  /\ df = Unbound
  /\ filtered_df = Unbound
  /\ search_terms = <<>>

\* line 121
CallClassify ==
  /\ pc = "classify"
  /\ \E company \in {<<"S","u","n">>}, snippet \in {<<"p","v">>, NoSnippetFound},
        completion \in Completions :
       llm_calls' =
         <<[company |-> company, snippet |-> snippet,
            category |-> category_prompt, model |-> model_choice,
            completion |-> completion,
            returned |-> classify_vendor(company, snippet, category_prompt,
                                         model_choice, completion)]>>
  /\ pc' = "classified"
  /\ UNCHANGED <<widgets, clicked, session_state, session_at_start, names, out, serp_calls>>

SpecClassify == InitClassify /\ [][CallClassify]_vars

\* ------------------------------------------------------------------ claims on the functions
IsBlank(t) == \A k \in 1..Len(t) : t[k] \in Whitespace

\* t is s without its leading and trailing whitespace
IsTrimOf(t, s) ==
  /\ t = <<>> \/ (t[1] \notin Whitespace /\ t[Len(t)] \notin Whitespace)
  /\ \E a \in 0..Len(s) : \E b \in a..Len(s) :
       /\ t = SubSeq(s, a + 1, b)
       /\ IsBlank(SubSeq(s, 1, a))
       /\ IsBlank(SubSeq(s, b + 1, Len(s)))

\* the completion request got a reply with a text
HasReplyText(completion) ==
  /\ ~completion.fails
  /\ completion.choices # <<>>
  /\ completion.choices[1] # NoneValue

\* C4 (as claimed): classify_vendor returns one of the three canonical
\* labels or an error-marker string, never the empty string, never null.
C4_CanonicalOrMarker ==
  \A i \in DOMAIN llm_calls :
     LET got == llm_calls[i].returned
     IN  /\ ~got.exc
         /\ got.val # NoneValue
         /\ got.val # <<>>
         /\ got.val \in CanonicalLabels \/ IsPrefix(ClassifyErrorPrefix, got.val)

\* C4 (amended): classify_vendor never raises and never returns null.  When
\* the request raises, or the response has no choice or a null content, it
\* returns the error marker followed by the failure's message; otherwise it
\* returns the reply without its leading and trailing whitespace, whatever
\* the reply is (so a canonical label exactly when the trimmed reply is one,
\* and the empty string for an empty or blank reply).
C4_TrimmedReplyOrMarker ==
  \A i \in DOMAIN llm_calls :
     LET completion == llm_calls[i].completion
         got == llm_calls[i].returned
     IN  /\ ~got.exc
         /\ got.val # NoneValue
         /\ IF HasReplyText(completion)
              THEN IsTrimOf(got.val, completion.choices[1])
              ELSE /\ IsPrefix(ClassifyErrorPrefix, got.val)
                   /\ completion.fails =>
                        got.val = ClassifyErrorPrefix \o completion.msg

\* a blank, non-empty reply, returned as the empty string
C4_Witness ==
  /\ pc = "classified"
  /\ HasReplyText(llm_calls[1].completion)
  /\ llm_calls[1].completion.choices[1] # <<>>
  /\ llm_calls[1].returned.val = <<>>

\* terms[i..j] is a maximal comma-free piece of the terms string
IsPiece(terms, i, j) ==
  /\ i <= j + 1
  /\ i = 1 \/ terms[i - 1] = Comma
  /\ j = Len(terms) \/ terms[j + 1] = Comma
  /\ \A k \in i..j : terms[k] # Comma

Pieces(terms) ==
  {SubSeq(terms, ij[1], ij[2]) :
     ij \in {x \in (1..(Len(terms) + 1)) \X (0..Len(terms)) : IsPiece(terms, x[1], x[2])}}

SubTexts(s) == {SubSeq(s, a, b) : a \in 1..(Len(s) + 1), b \in 0..Len(s)}

\* the trimmed, lower-cased terms of a terms string
ReferenceTerms(terms) ==
  {str_lower(CHOOSE t \in SubTexts(piece) : IsTrimOf(t, piece)) : piece \in Pieces(terms)}

IsSubstring(t, s) ==
  \E a \in 0..Len(s) : \E b \in a..Len(s) : SubSeq(s, a + 1, b) = t

\* the positions of the rows the reference filter keeps
ReferenceKept(frame, terms) ==
  {r \in 1..Len(frame.data) :
     \E t \in ReferenceTerms(terms) :
        \/ IsSubstring(t, str_lower(str(RowGet(frame, r, Company))))
        \/ IsSubstring(t, str_lower(str(RowGet(frame, r, Location))))}

\* C7: filter_by_keywords returns the table itself when the terms string is
\* empty or blank; otherwise it returns, in the original order and without
\* repetition, exactly the rows in which some trimmed, lower-cased term is a
\* substring of the lower-cased Company or Location text (a missing cell
\* reads as the text str() gives it).
C7_FilterIsReference ==
  pc = "filtered" =>
     LET input == df[1]
         result == filtered_df[1]
     IN  IF IsBlank(search_terms)
           THEN result = input
           ELSE LET kept == ReferenceKept(input, search_terms)
                IN  /\ result.columns = input.columns
                    /\ Len(result.data) = Cardinality(kept)
                    /\ Len(result.index) = Cardinality(kept)
                    /\ \A k \in 1..Len(result.data) :
                         /\ result.index[k] + 1 \in kept
                         /\ result.data[k] = input.data[result.index[k] + 1]
                         /\ \A m \in 1..(k - 1) : result.index[m] < result.index[k]

\* two terms that keep the second row (through its Company) and drop the
\* first
C7_Witness ==
  /\ pc = "filtered"
  /\ search_terms = <<"a", ",", "N">>
  /\ df[1].data = << <<<<"B">>, <<"b"," ","B">>>>, <<<<"A","n">>, <<"b"," ","B">>>> >>
  /\ filtered_df[1].index = <<1>>

\* the response was decoded and holds no organic result
NoOrganicResults(response) ==
  /\ ~response.fails
  /\ ~response.has_organic_results \/ response.organic_results = <<>>

\* C8 (as claimed): a decoded response without organic results (the key
\* absent, or an empty array) yields the fixed no-results marker, which is no
\* error string; an error string is returned only when the request or the
\* decoding failed.
C8_NoResultsMarker ==
  \A i \in DOMAIN serp_calls :
     LET response == serp_calls[i].response
         got == serp_calls[i].returned
     IN  /\ ~got.exc
         /\ NoOrganicResults(response) =>
              /\ got.val = NoSnippetFound
              /\ ~IsPrefix(SnippetErrorPrefix, got.val)
         /\ IsPrefix(SnippetErrorPrefix, got.val) => response.fails

====
